---- MODULE Spec2Model ----
(***************************************************************************)
(* Image_sorter: the duplicate finder (sorter/duplicate_finder.py) and the *)
(* directory pipeline (sorter/image_processor.py) as state machines.       *)
(*                                                                         *)
(* Image paths are model values.  A fingerprint is a sequence of HashLen   *)
(* characters drawn from HashChars; it stands for the string               *)
(* str(phash) + str(dhash) of the source, which has one fixed length for   *)
(* every image and whose characters are only ever compared for equality.   *)
(* Python dicts and lists keep insertion order, so they are sequences here.*)
(***************************************************************************)
EXTENDS Integers, Sequences, FiniteSets, TLC

\* ----- bounds ------------------------------------------------------------
MaxDupImages == 4
HashLen == 2
MaxThreshold == 1
ScenarioHashLen == 3
MaxImages == 2
MaxWorkers == 2
MaxErrors == 1
MaxSeed == 1
HashWidth == 3
MaxCrops == 5
MaxCalls == 2
MaxRuns == 2
MaxConfigs == 2

\* ----- values ------------------------------------------------------------
\* Values are tuples of integers so that any two of them can be compared.
None == <<>>               \* Python's None (falsy, like the empty string)
Unknown == <<-2>>          \* a file nobody has opened yet
Unreadable == <<-1>>       \* a file Image.open cannot decode

DupPaths == 1..MaxDupImages
HashChars == {0, 1}
Hashes == [1..HashLen -> HashChars]
Thresholds == 0..MaxThreshold
ScenarioHashes == [1..ScenarioHashLen -> HashChars]

Images == 1..MaxImages
\* fingerprints the files of the processed directory decode to
DirHashes == {h \in Hashes : \A k \in 2..HashLen : h[k] = 0}
Label == 7                 \* the one "lat_long" label a GPS tag yields here
NoOutput == <<>>           \* output_dir=None
OutDir == <<1>>            \* an output directory was given
Seeds == 0..MaxSeed        \* the values the interpreter's string-hash seed can take

VARIABLES
  content,          \* path -> what the file decodes to: a fingerprint, Unreadable, or Unknown (not read yet)
  threshold,        \* DuplicateFinder.threshold
  image_hashes,     \* DuplicateFinder.image_hashes: insertion-ordered <<[path, hash]>>
  attempted,        \* paths add_image was called for
  df_pc,            \* "adding" | "found": position of the caller of DuplicateFinder
  found,            \* return value of find_duplicates (a list of lists of paths)
  dir_exists,       \* whether directory_path exists on disk
  dir_files,        \* the image files under directory_path, in os.walk order
  config,           \* ImageProcessor.config
  output_dir,       \* the output_dir argument
  max_workers,      \* the max_workers argument
  pd_pc,            \* position of process_directory
  image_files,      \* the list _get_image_files returned
  task,             \* image -> position of its process_image call in the pool
  outcome,          \* image -> what each classifier call did ("-" while not called)
  results,          \* ImageProcessor.results
  face_images,      \* FaceDetector.face_images (a crop is named by the image it was cut from)
  image_paths,      \* FaceDetector.image_paths
  hash_seed,        \* the string-hash seed of the running interpreter process
  calls,            \* the number of process_directory calls made on the ImageProcessor
  plan,             \* the copies _organize_results has still to make, in order
  fs,               \* files in the output tree: [cat, sub, name, data]
  app_input_dir,    \* ImageSorterApp.input_dir: "", a directory, or a path that is none
  app_output_dir,   \* ImageSorterApp.output_dir: "" or a path
  processing,       \* ImageSorterApp.processing
  process_button,   \* state of the Start Processing button: "normal" or "disabled"
  app_results,      \* ImageSorterApp.results: "None" or "set"
  workers,          \* the _process_images threads that are running
  started,          \* the number of _process_images threads started so far
  after_calls,      \* callbacks handed to root.after(0, ...) and not yet run
  default_config,   \* Config.DEFAULT_CONFIG: the nested dict objects of the class
  configs,          \* per Config instance: NotBuilt, or its config dict
  config_files      \* per Config instance: the file at its config_path

dupvars == <<threshold, image_hashes, attempted, df_pc, found>>
pipevars == <<dir_exists, dir_files, config, output_dir, max_workers, pd_pc, image_files, task,
              outcome, results, face_images, image_paths, hash_seed, calls, plan, fs>>
guivars == <<app_input_dir, app_output_dir, processing, process_button, app_results,
             workers, started, after_calls>>
cfgvars == <<default_config, configs, config_files>>
vars == <<content, dupvars, pipevars, guivars, cfgvars>>

\* ----- Python containers -------------------------------------------------
Min(a, b) == IF a <= b THEN a ELSE b

Range(s) == {s[i] : i \in 1..Len(s)}

\* dict[key] = value on an insertion-ordered dict: an existing key keeps its place
DictSet(d, k, v) ==
  IF \E i \in 1..Len(d) : d[i].path = k
    THEN [i \in 1..Len(d) |-> IF d[i].path = k THEN [path |-> k, hash |-> v] ELSE d[i]]
    ELSE Append(d, [path |-> k, hash |-> v])

DictKeys(d) == {d[i].path : i \in 1..Len(d)}

DictGet(d, k) == (CHOOSE i \in 1..Len(d) : d[i].path = k)

\* "if x:" on a string or None
Truthy(x) == Len(x) > 0

\* ----- ImageSorterApp and Config, not in use ------------------------------
\* ImageSorterApp.__init__: nothing chosen, nothing running
GuiIdle ==
  /\ app_input_dir = ""
  /\ app_output_dir = ""
  /\ processing = FALSE
  /\ process_button = "normal"
  /\ app_results = "None"
  /\ workers = 0
  /\ started = 0
  /\ after_calls = <<>>

\* the sections of DEFAULT_CONFIG followed here, and the key followed in each
Sections == {"duplicates", "scenery"}
Keys == {"enabled"}
ConfigIds == 1..MaxConfigs

\* DEFAULT_CONFIG as the class body writes it (lines 15-37): "enabled": True
DefaultNested == [s \in Sections |-> [k \in Keys |-> TRUE]]

\* no Config instance built; no file at any config_path
ConfigIdle ==
  /\ default_config = DefaultNested
  /\ configs = <<>>
  /\ config_files = [c \in ConfigIds |-> [state |-> "missing", sets |-> {}]]

\* ----- DuplicateFinder ---------------------------------------------------
\* _calculate_hash: the fingerprint of a readable file, None when decoding raises
calculate_hashUnguarded(c) == c
calculate_hash(c) == IF c = Unreadable THEN None ELSE c

\* _hamming_distance: sum(c1 != c2 for c1, c2 in zip(hash1, hash2))
hamming_distance(hash1, hash2) ==
  Cardinality({i \in 1..Min(Len(hash1), Len(hash2)) : hash1[i] # hash2[i]})

\* hash_groups[img_hash].append(img_path) on a defaultdict(list)
GroupAppendApart(hg, h, p) == Append(hg, [hash |-> h, paths |-> <<p>>])
GroupAppend(hg, h, p) ==
  IF \E i \in 1..Len(hg) : hg[i].hash = h
    THEN [i \in 1..Len(hg) |->
            IF hg[i].hash = h THEN [hash |-> h, paths |-> Append(hg[i].paths, p)] ELSE hg[i]]
    ELSE Append(hg, [hash |-> h, paths |-> <<p>>])

RECURSIVE HashGroupsFrom(_, _, _)
HashGroupsFrom(ih, i, hg) ==
  IF i > Len(ih) THEN hg
  ELSE HashGroupsFrom(ih, i + 1, GroupAppend(hg, ih[i].hash, ih[i].path))

\* lines 57-59: group image paths by hash
HashGroups(ih) == HashGroupsFrom(ih, 1, <<>>)

\* line 83: the comparison that admits other_hash to the seed's group
SimilarOff(hash_val, other_hash, t) == hamming_distance(hash_val, other_hash) <= t + 1
SimilarBelow(hash_val, other_hash, t) == hamming_distance(hash_val, other_hash) < t
Similar(hash_val, other_hash, t) == hamming_distance(hash_val, other_hash) <= t

\* line 85: processed_hashes.add(other_hash)
MarkAbsorbedForgotten(processed, other_hash) == processed
MarkAbsorbed(processed, other_hash) == processed \cup {other_hash}

\* line 84: similar_group.extend(other_paths)
ExtendInFront(similar_group, other_paths) == other_paths \o similar_group
Extend(similar_group, other_paths) == similar_group \o other_paths

\* lines 78-85: the inner scan for one seed; acc = [group, processed]
RECURSIVE InnerScan(_, _, _, _, _)
InnerScan(hg, hash_val, j, acc, t) ==
  IF j > Len(hg) THEN acc
  ELSE IF hg[j].hash \in acc.processed \/ hg[j].hash = hash_val
         THEN InnerScan(hg, hash_val, j + 1, acc, t)
       ELSE IF Similar(hash_val, hg[j].hash, t)
         THEN InnerScan(hg, hash_val, j + 1,
                        [group |-> Extend(acc.group, hg[j].paths),
                         processed |-> MarkAbsorbed(acc.processed, hg[j].hash)], t)
       ELSE InnerScan(hg, hash_val, j + 1, acc, t)

\* lines 67-68: a hash already processed is passed over as a seed
SkippedNever(processed, hash_val) == FALSE
Skipped(processed, hash_val) == hash_val \in processed

\* lines 65-90: the outer loop; st = [groups, processed]
RECURSIVE OuterLoop(_, _, _, _)
OuterLoop(hg, i, st, t) ==
  IF i > Len(hg) THEN st
  ELSE IF Skipped(st.processed, hg[i].hash)
         THEN OuterLoop(hg, i + 1, st, t)
       ELSE IF Len(hg[i].paths) > 1
         THEN OuterLoop(hg, i + 1,
                        [groups |-> Append(st.groups, hg[i].paths),
                         processed |-> st.processed \cup {hg[i].hash}], t)
       ELSE LET r == InnerScan(hg, hg[i].hash, 1,
                               [group |-> hg[i].paths, processed |-> st.processed], t)
            IN OuterLoop(hg, i + 1,
                         [groups |-> IF Len(r.group) > 1 THEN Append(st.groups, r.group)
                                     ELSE st.groups,
                          processed |-> r.processed \cup {hg[i].hash}], t)

\* find_duplicates: the list of duplicate groups
find_duplicates(ih, t) ==
  IF ih = <<>> THEN <<>>
  ELSE OuterLoop(HashGroups(ih), 1, [groups |-> <<>>, processed |-> {}], t).groups

\* ----- the duplicate finder driven directly ------------------------------
\* add_image(image_path): the hash is stored unless it could not be computed
add_image(p) ==
  /\ df_pc = "adding"
  /\ p \in DOMAIN content
  /\ p \notin attempted
  /\ \E c \in (IF content[p] = Unknown THEN Hashes \cup {Unreadable} ELSE {content[p]}) :
       /\ content' = [content EXCEPT ![p] = c]
       /\ image_hashes' = IF Truthy(calculate_hash(c))
                            THEN DictSet(image_hashes, p, calculate_hash(c))
                            ELSE image_hashes
  /\ attempted' = attempted \cup {p}
  /\ UNCHANGED <<guivars, cfgvars, threshold, df_pc, found, pipevars>>

\* self.image_hashes when find_duplicates returns: the method reads the map
\* (lines 53 and 58) and builds its groups in locals; it never stores into it
map_drained(ih) == <<>>
map_after_find(ih) == ih

\* a call of find_duplicates() on the finder as it stands
FindDuplicates ==
  /\ df_pc = "adding"
  /\ found' = find_duplicates(image_hashes, threshold)
  /\ image_hashes' = map_after_find(image_hashes)
  /\ df_pc' = "found"
  /\ UNCHANGED <<guivars, cfgvars, content, threshold, attempted, pipevars>>

\* find_duplicates() called once more, no add_image in between
FindDuplicatesAgain ==
  /\ df_pc = "found"
  /\ found' = find_duplicates(image_hashes, threshold)
  /\ image_hashes' = map_after_find(image_hashes)
  /\ df_pc' = "found_again"
  /\ UNCHANGED <<guivars, cfgvars, content, threshold, attempted, pipevars>>

\* the pipeline is not part of this run
PipelineIdle ==
  /\ dir_exists = FALSE
  /\ dir_files = <<>>
  /\ config = [process_faces |-> TRUE, process_location |-> TRUE,
               process_duplicates |-> TRUE, process_scenery |-> TRUE]
  /\ output_dir = NoOutput
  /\ max_workers = 1
  /\ pd_pc = "unused"
  /\ image_files = <<>>
  /\ task = <<>>
  /\ outcome = <<>>
  /\ results = [faces |-> <<>>, people |-> <<>>, locations |-> <<>>,
                duplicates |-> <<>>, scenery |-> <<>>]
  /\ face_images = <<>>
  /\ image_paths = <<>>
  /\ hash_seed = 0
  /\ calls = 0
  /\ plan = <<>>
  /\ fs = {}

InitDup ==
  /\ PipelineIdle
  /\ GuiIdle
  /\ ConfigIdle
  /\ content = [p \in DupPaths |-> Unknown]
  /\ threshold \in Thresholds
  /\ image_hashes = <<>>
  /\ attempted = {}
  /\ df_pc = "adding"
  /\ found = <<>>

\* Paths are named by the order they are added in: the k-th add_image call
\* is for path k.
NextDup ==
  \/ \E p \in DupPaths : p = Cardinality(attempted) + 1 /\ add_image(p)
  \/ FindDuplicates
  \/ FindDuplicatesAgain

SpecDup == InitDup /\ [][NextDup]_vars

\* ----- the five-image scenario: A = B, C near A, D far, E unreadable -----
ScenarioPaths == {"A", "B", "C", "D", "E"}

IsScenario(c, t) ==
  /\ c["E"] = Unreadable
  /\ \A p \in {"A", "B", "C", "D"} : c[p] \in ScenarioHashes
  /\ c["A"] = c["B"]
  /\ c["C"] # c["A"]
  /\ hamming_distance(c["C"], c["A"]) <= t
  /\ \A p \in {"A", "B", "C"} : hamming_distance(c["D"], c[p]) > t

InitScenario ==
  /\ PipelineIdle
  /\ GuiIdle
  /\ ConfigIdle
  /\ content \in [ScenarioPaths -> ScenarioHashes \cup {Unreadable}]
  /\ threshold \in Thresholds
  /\ IsScenario(content, threshold)
  /\ image_hashes = <<>>
  /\ attempted = {}
  /\ df_pc = "adding"
  /\ found = <<>>

NextScenario == (\E p \in ScenarioPaths : add_image(p)) \/ FindDuplicates

SpecScenario == InitScenario /\ [][NextScenario]_vars

\* ----- FaceDetector.cluster_faces ----------------------------------------
num_clusters == 5

\* people[person_id].append(img_path) unless it is already there (lines 105-112)
PeopleAdd(people, person_id, img_path) ==
  IF \E k \in 1..Len(people) : people[k].id = person_id
    THEN [k \in 1..Len(people) |->
            IF people[k].id = person_id /\ img_path \notin Range(people[k].images)
              THEN [id |-> person_id, images |-> Append(people[k].images, img_path)]
              ELSE people[k]]
    ELSE Append(people, [id |-> person_id, images |-> <<img_path>>])

RECURSIVE GroupByLabel(_, _, _, _)
GroupByLabel(ip, labels, i, people) ==
  IF i > Len(labels) THEN people
  ELSE GroupByLabel(ip, labels, i + 1, PeopleAdd(people, labels[i] + 1, ip[i]))

\* what cv2.kmeans can hand back for n samples: one label in 0..k-1 per sample;
\* with fewer samples than clusters it raises, written <<>>
KMeansLabels(n) ==
  IF n < num_clusters THEN {<<>>} ELSE [1..n -> 0..(num_clusters - 1)]

\* cluster_faces: {} for no faces or when anything in the try block raised
cluster_faces(fi, ip, labels) ==
  IF fi = <<>> \/ labels = <<>> \/ Len(ip) < Len(labels) THEN <<>>
  ELSE GroupByLabel(ip, labels, 1, <<>>)

\* One pass of the loop of detect (lines 57-66) for a face found in image p:
\* the crop and the path of its image are appended, one after the other.
collect_face(p) ==
  /\ pd_pc = "collecting"
  /\ Len(face_images) < MaxCrops
  /\ face_images' = Append(face_images, p)
  /\ image_paths' = Append(image_paths, p)
  /\ UNCHANGED <<guivars, cfgvars, content, dupvars, hash_seed, calls, dir_exists, dir_files, config, output_dir,
                 max_workers, pd_pc, image_files, task, outcome, results, plan, fs>>

\* results['people'] = face_detector.cluster_faces() on the crops collected
ClusterFaces ==
  /\ pd_pc = "collecting"
  /\ \E labels \in KMeansLabels(Len(face_images)) :
       results' = [results EXCEPT !.people = cluster_faces(face_images, image_paths, labels)]
  /\ pd_pc' = "clustered"
  /\ UNCHANGED <<guivars, cfgvars, content, dupvars, hash_seed, calls, dir_exists, dir_files, config, output_dir,
                 max_workers, image_files, task, outcome, face_images, image_paths, plan, fs>>

InitCluster ==
  /\ GuiIdle
  /\ ConfigIdle
  /\ content = [p \in Images |-> Unknown]
  /\ threshold = 0
  /\ image_hashes = <<>>
  /\ attempted = {}
  /\ df_pc = "unused"
  /\ found = <<>>
  /\ dir_exists = TRUE
  /\ dir_files = [p \in Images |-> p]
  /\ config = [process_faces |-> TRUE, process_location |-> TRUE,
               process_duplicates |-> TRUE, process_scenery |-> TRUE]
  /\ output_dir = NoOutput
  /\ max_workers = 1
  /\ pd_pc = "collecting"
  /\ image_files = <<>>
  /\ task = <<>>
  /\ outcome = <<>>
  /\ results = [faces |-> <<>>, people |-> <<>>, locations |-> <<>>,
                duplicates |-> <<>>, scenery |-> <<>>]
  /\ face_images = <<>>
  /\ image_paths = <<>>
  /\ hash_seed = 0
  /\ calls = 0
  /\ plan = <<>>
  /\ fs = {}

NextCluster == (\E p \in 1..MaxImages : collect_face(p)) \/ ClusterFaces

SpecCluster == InitCluster /\ [][NextCluster]_vars

\* ----- ImageProcessor ----------------------------------------------------
\* list.append: one atomic operation of the interpreter, also between threads
ListOverwrite(list, x) == <<x>>
ListAppend(list, x) == Append(list, x)

\* os.walk over a directory that does not exist yields nothing
get_image_files(exists, files) == IF exists THEN files ELSE <<>>

\* where an exception raised in the body of a classifier is caught:
\* "classifier" - the except Exception of the classifier method itself,
\* "image"      - the except Exception of process_image,
\* "run"        - nowhere below process_directory.
CaughtAtImage(c) == "image"
CaughtAtRun(c) == "run"
CaughtAt(c) == "classifier"

\* the position of a process_image call after classifier c failed inside
AfterError(c, next) ==
  IF CaughtAt(c) = "classifier" THEN next
  ELSE IF CaughtAt(c) = "image" THEN "done"
  ELSE "raised"

NumErrors ==
  Cardinality({ic \in (DOMAIN outcome) \X {"face", "loc", "scn"} : outcome[ic[1]][ic[2]] = "err"})
  + Cardinality({i \in DOMAIN outcome : content[i] = Unreadable})

Outcomes(ok) == IF NumErrors < MaxErrors THEN ok \cup {"err"} ELSE ok

Running == {i \in DOMAIN task : task[i] \notin {"queued", "done", "raised"}}

\* list(executor.map(...)) inside the with block: every call has finished
AllTasksStarted == \A i \in DOMAIN task : task[i] # "queued"
AllTasksDone == \A i \in DOMAIN task : task[i] \in {"done", "raised"}

\* os.path.basename: images 1 and 2 are files of one name in two subdirectories
Basename(p) == IF p <= 2 THEN 1 ELSE p

RECURSIVE Flatten(_)
Flatten(ss) == IF ss = <<>> THEN <<>> ELSE Head(ss) \o Flatten(Tail(ss))

Copy(src, cat, sub) == [src |-> src, cat |-> cat, sub |-> sub]

\* hash(str) of the interpreter: keyed by the seed of the process
str_hash(p, seed) == (7 * p + 3 * seed + 1) % (2 ^ HashWidth)

\* hash(tuple): mixes the hashes of the items in the order of the items
RECURSIVE tuple_hash_from(_, _, _, _)
tuple_hash_from(g, k, acc, seed) ==
  IF k > Len(g) THEN acc
  ELSE tuple_hash_from(g, k + 1, (acc * 31 + str_hash(g[k], seed)) % (2 ^ HashWidth), seed)

tuple_hash(g, seed) == tuple_hash_from(g, 1, 1, seed)

\* _organize_results: the copy2 calls in the order the method makes them
organize_plan(r, seed) ==
  [k \in 1..Len(r.faces) |-> Copy(r.faces[k], "faces", <<>>)]
  \o Flatten([k \in 1..Len(r.people) |->
                [m \in 1..Len(r.people[k].images) |->
                   Copy(r.people[k].images[m], "people", <<r.people[k].id>>)]])
  \o [k \in 1..Len(r.locations) |-> Copy(r.locations[k][1], "locations", <<r.locations[k][2]>>)]
  \o Flatten([k \in 1..Len(r.duplicates) |->
                [m \in 1..Len(r.duplicates[k]) |->
                   Copy(r.duplicates[k][m], "duplicates",
                        <<tuple_hash(r.duplicates[k], seed)>>)]])
  \o [k \in 1..Len(r.scenery) |-> Copy(r.scenery[k], "scenery", <<>>)]

\* a copy that keeps an existing dest and writes beside it under a new name
copy2Beside(files, c) ==
  LET taken == \E f \in files : f.cat = c.cat /\ f.sub = c.sub /\ f.name = Basename(c.src)
  IN files \cup {[cat |-> c.cat, sub |-> c.sub,
                  name |-> IF taken THEN Basename(c.src) + 100 * (Cardinality(files) + 1)
                           ELSE Basename(c.src),
                  data |-> c.src]}

\* shutil.copy2(src, dest): dest is replaced when it exists
copy2(files, c) ==
  {f \in files : ~(f.cat = c.cat /\ f.sub = c.sub /\ f.name = Basename(c.src))}
  \cup {[cat |-> c.cat, sub |-> c.sub, name |-> Basename(c.src), data |-> c.src]}

\* process_directory, lines 45-61: scan, then hand every file to the pool
\* (the category folders os.makedirs creates hold no files and are not tracked)
process_directory ==
  /\ pd_pc = "idle"
  /\ image_files' = get_image_files(dir_exists, dir_files)
  /\ task' = [i \in Range(image_files') |-> "queued"]
  /\ outcome' = [i \in Range(image_files') |-> [face |-> "-", loc |-> "-", dup |-> "-", scn |-> "-"]]
  /\ pd_pc' = "dispatching"
  /\ calls' = calls + 1
  /\ UNCHANGED <<guivars, cfgvars, content, dupvars, hash_seed, dir_exists, dir_files, config, output_dir, max_workers,
                 results, face_images, image_paths, plan, fs>>

\* process_directory called once more on the same ImageProcessor after a call
\* that returned: on the same directory, or on a directory with no image
process_directory_again ==
  /\ pd_pc = "returned"
  /\ calls < MaxCalls
  /\ \E same \in BOOLEAN :
       /\ dir_files' = IF same THEN dir_files ELSE <<>>
       /\ image_files' = get_image_files(dir_exists, dir_files')
  /\ task' = [i \in Range(image_files') |-> "queued"]
  /\ outcome' = [i \in Range(image_files') |-> [face |-> "-", loc |-> "-", dup |-> "-", scn |-> "-"]]
  /\ pd_pc' = "dispatching"
  /\ calls' = calls + 1
  /\ UNCHANGED <<guivars, cfgvars, content, dupvars, hash_seed, dir_exists, config, output_dir, max_workers,
                 results, face_images, image_paths, plan, fs>>

\* a free worker takes the next queued call
run_task(i) ==
  /\ pd_pc = "dispatching"
  /\ i \in DOMAIN task /\ task[i] = "queued"
  /\ \A j \in DOMAIN task : j < i => task[j] # "queued"
  /\ Cardinality(Running) < max_workers
  /\ task' = [task EXCEPT ![i] = "detect"]
  /\ UNCHANGED <<guivars, cfgvars, content, dupvars, hash_seed, calls, dir_exists, dir_files, config, output_dir, max_workers,
                 pd_pc, image_files, outcome, results, face_images, image_paths, plan, fs>>

\* FaceDetector.detect up to face_images.append (lines 39-65)
detect(i) ==
  /\ i \in DOMAIN task /\ task[i] = "detect"
  /\ \E out \in Outcomes({"pos", "neg"}) :
       /\ outcome' = [outcome EXCEPT ![i].face = out]
       /\ face_images' = IF out = "pos" THEN ListAppend(face_images, i) ELSE face_images
       /\ task' = [task EXCEPT ![i] = IF out = "pos" THEN "detect_path"
                                      ELSE IF out = "neg" THEN "extract"
                                      ELSE AfterError("face", "extract")]
  /\ UNCHANGED <<guivars, cfgvars, content, dupvars, hash_seed, calls, dir_exists, dir_files, config, output_dir, max_workers,
                 pd_pc, image_files, results, image_paths, plan, fs>>

\* FaceDetector.detect, image_paths.append and return True (lines 66-68)
detect_path(i) ==
  /\ i \in DOMAIN task /\ task[i] = "detect_path"
  /\ image_paths' = ListAppend(image_paths, i)
  /\ task' = [task EXCEPT ![i] = "faces"]
  /\ UNCHANGED <<guivars, cfgvars, content, dupvars, hash_seed, calls, dir_exists, dir_files, config, output_dir, max_workers,
                 pd_pc, image_files, outcome, results, face_images, plan, fs>>

\* process_image line 85
append_face(i) ==
  /\ i \in DOMAIN task /\ task[i] = "faces"
  /\ results' = [results EXCEPT !.faces = ListAppend(@, i)]
  /\ task' = [task EXCEPT ![i] = "extract"]
  /\ UNCHANGED <<guivars, cfgvars, content, dupvars, hash_seed, calls, dir_exists, dir_files, config, output_dir, max_workers,
                 pd_pc, image_files, outcome, face_images, image_paths, plan, fs>>

\* process_image lines 88-90
extract(i) ==
  /\ i \in DOMAIN task /\ task[i] = "extract"
  /\ \E out \in Outcomes({"pos", "neg"}) :
       /\ outcome' = [outcome EXCEPT ![i].loc = out]
       /\ results' = IF out = "pos"
                       THEN [results EXCEPT !.locations = ListAppend(@, <<i, Label>>)]
                       ELSE results
       /\ task' = [task EXCEPT ![i] = IF out = "err" THEN AfterError("loc", "add_image")
                                      ELSE "add_image"]
  /\ UNCHANGED <<guivars, cfgvars, content, dupvars, hash_seed, calls, dir_exists, dir_files, config, output_dir, max_workers,
                 pd_pc, image_files, face_images, image_paths, plan, fs>>

\* process_image line 93: duplicate_finder.add_image(image_path)
add_image_call(i) ==
  /\ i \in DOMAIN task /\ task[i] = "add_image"
  /\ \E c \in (IF content[i] # Unknown THEN {content[i]}
               ELSE IF NumErrors < MaxErrors THEN DirHashes \cup {Unreadable} ELSE DirHashes) :
       /\ content' = [content EXCEPT ![i] = c]
       /\ outcome' = [outcome EXCEPT ![i].dup = IF c = Unreadable THEN "err" ELSE "pos"]
       /\ image_hashes' = IF Truthy(calculate_hash(c))
                            THEN DictSet(image_hashes, i, calculate_hash(c))
                            ELSE image_hashes
       /\ task' = [task EXCEPT ![i] = IF c = Unreadable THEN AfterError("dup", "classify")
                                      ELSE "classify"]
  /\ UNCHANGED <<guivars, cfgvars, threshold, attempted, df_pc, found, hash_seed, calls, dir_exists, dir_files, config, output_dir,
                 max_workers, pd_pc, image_files, results, face_images, image_paths, plan, fs>>

\* process_image lines 96-98
classify(i) ==
  /\ i \in DOMAIN task /\ task[i] = "classify"
  /\ \E out \in Outcomes({"pos", "neg"}) :
       /\ outcome' = [outcome EXCEPT ![i].scn = out]
       /\ results' = IF out = "pos"
                       THEN [results EXCEPT !.scenery = ListAppend(@, i)]
                       ELSE results
       /\ task' = [task EXCEPT ![i] = IF out = "err" THEN AfterError("scn", "done") ELSE "done"]
  /\ UNCHANGED <<guivars, cfgvars, content, dupvars, hash_seed, calls, dir_exists, dir_files, config, output_dir, max_workers,
                 pd_pc, image_files, face_images, image_paths, plan, fs>>

\* The seed of the process is fixed when the interpreter starts and shows
\* only where hash() of a str is taken, line 145: the value is drawn at the
\* first run whose results name a group folder, and is kept from then on.
SeedsRead(r, seed, out) ==
  IF out # NoOutput /\ r.duplicates # <<>> THEN Seeds ELSE {seed}

\* process_directory lines 63-75 up to the first copy: leaves the with block,
\* finds duplicates, clusters faces, and returns unless there is an output_dir
aggregate ==
  /\ pd_pc = "dispatching"
  /\ AllTasksDone
  /\ IF \E i \in DOMAIN task : task[i] = "raised"
       THEN /\ pd_pc' = "raised"
            /\ UNCHANGED <<results, plan, hash_seed>>
       ELSE \E labels \in KMeansLabels(Len(face_images)) :
              LET dups == IF image_files # <<>> THEN find_duplicates(image_hashes, threshold)
                          ELSE results.duplicates
                  ppl == IF results.faces # <<>>
                           THEN cluster_faces(face_images, image_paths, labels)
                           ELSE results.people
                  r == [results EXCEPT !.duplicates = dups, !.people = ppl]
              IN \E seed \in SeedsRead(r, hash_seed, output_dir) :
                   /\ results' = r
                   /\ hash_seed' = seed
                   /\ plan' = IF output_dir # NoOutput THEN organize_plan(r, seed) ELSE <<>>
                   /\ pd_pc' = IF output_dir # NoOutput /\ organize_plan(r, seed) # <<>>
                                 THEN "organizing" ELSE "returned"
  /\ UNCHANGED <<guivars, cfgvars, content, dupvars, calls, dir_exists, dir_files, config, output_dir, max_workers,
                 image_files, task, outcome, face_images, image_paths, fs>>

\* _organize_results: one shutil.copy2; a copy that raises ends the call
copy_next ==
  /\ pd_pc \in {"organizing", "organizing_again"}
  /\ \E ok \in BOOLEAN :
       IF ok
         THEN /\ fs' = copy2(fs, Head(plan))
              /\ plan' = Tail(plan)
              /\ pd_pc' = IF Tail(plan) # <<>> THEN pd_pc
                          ELSE IF pd_pc = "organizing" THEN "returned" ELSE "returned_again"
         ELSE /\ pd_pc' = "raised"
              /\ UNCHANGED <<fs, plan>>
  /\ UNCHANGED <<guivars, cfgvars, content, dupvars, hash_seed, calls, dir_exists, dir_files, config, output_dir, max_workers,
                 image_files, task, outcome, results, face_images, image_paths>>

\* _organize_results(output_dir) called once more on the results of the run
organize_again ==
  /\ pd_pc = "returned"
  /\ output_dir # NoOutput
  /\ organize_plan(results, hash_seed) # <<>>
  /\ plan' = organize_plan(results, hash_seed)
  /\ pd_pc' = "organizing_again"
  /\ UNCHANGED <<guivars, cfgvars, content, dupvars, hash_seed, calls, dir_exists, dir_files, config, output_dir,
                 max_workers, image_files, task, outcome, results, face_images, image_paths, fs>>

Reverse(g) == [k \in 1..Len(g) |-> g[Len(g) + 1 - k]]

\* The program is started again on the same directory and output root: a new
\* interpreter process draws its own hash seed, and the pool may have stored
\* the fingerprints of a group in the other order.  The run is taken up where
\* its _organize_results starts.
run_in_new_process ==
  /\ pd_pc = "returned"
  /\ output_dir # NoOutput
  /\ results.duplicates # <<>>
  /\ \E seed \in Seeds, rev \in BOOLEAN :
       LET r == [results EXCEPT !.duplicates =
                   [k \in 1..Len(results.duplicates) |->
                      IF rev THEN Reverse(results.duplicates[k]) ELSE results.duplicates[k]]]
       IN /\ hash_seed' = seed
          /\ results' = r
          /\ plan' = organize_plan(r, seed)
  /\ pd_pc' = "organizing_again"
  /\ UNCHANGED <<guivars, cfgvars, content, dupvars, calls, dir_exists, dir_files, config, output_dir,
                 max_workers, image_files, task, outcome, face_images, image_paths, fs>>

Configs ==
  {[process_faces |-> TRUE, process_location |-> TRUE,
    process_duplicates |-> TRUE, process_scenery |-> s] : s \in BOOLEAN}

AllOn == [process_faces |-> TRUE, process_location |-> TRUE,
          process_duplicates |-> TRUE, process_scenery |-> TRUE]

\* a fresh ImageProcessor and a directory of at most MaxImages image files
InitProcessor ==
  /\ GuiIdle
  /\ ConfigIdle
  /\ content = [p \in Images |-> Unknown]
  /\ threshold = MaxThreshold
  /\ image_hashes = <<>>
  /\ attempted = {}
  /\ df_pc = "unused"
  /\ found = <<>>
  /\ dir_exists \in BOOLEAN
  /\ dir_files \in {[k \in 1..n |-> k] : n \in 0..MaxImages}
  /\ dir_exists = FALSE => dir_files = <<>>
  /\ pd_pc = "idle"
  /\ image_files = <<>>
  /\ task = <<>>
  /\ outcome = <<>>
  /\ results = [faces |-> <<>>, people |-> <<>>, locations |-> <<>>,
                duplicates |-> <<>>, scenery |-> <<>>]
  /\ face_images = <<>>
  /\ image_paths = <<>>
  /\ plan = <<>>
  /\ fs = {}

Dispatch ==
  \/ \E i \in Images : run_task(i)
  \/ \E i \in Images : detect(i)
  \/ \E i \in Images : detect_path(i)
  \/ \E i \in Images : append_face(i)
  \/ \E i \in Images : extract(i)
  \/ \E i \in Images : add_image_call(i)
  \/ \E i \in Images : classify(i)

\* process_directory(directory_path, None, max_workers) under any configuration
Init ==
  /\ InitProcessor
  /\ config \in Configs
  /\ output_dir = NoOutput
  /\ max_workers \in 1..MaxWorkers
  /\ hash_seed = 0
  /\ calls = 0

Next == process_directory \/ Dispatch \/ aggregate

Spec == Init /\ [][Next]_vars

\* process_directory(directory_path, output_dir, 1)
InitOut ==
  /\ InitProcessor
  /\ config = AllOn
  /\ output_dir = OutDir
  /\ max_workers = 1
  /\ hash_seed = 0
  /\ calls = 0

NextOut == process_directory \/ Dispatch \/ aggregate \/ copy_next

SpecOut == InitOut /\ [][NextOut]_vars

\* process_directory(directory_path, None, 1), and the call made again
InitAgain ==
  /\ InitProcessor
  /\ config = AllOn
  /\ output_dir = NoOutput
  /\ max_workers = 1
  /\ hash_seed = 0
  /\ calls = 0

NextAgain == process_directory \/ Dispatch \/ aggregate \/ process_directory_again

SpecAgain == InitAgain /\ [][NextAgain]_vars

\* the same, and _organize_results called a second time on the results
NextTwice == process_directory \/ Dispatch \/ aggregate \/ copy_next \/ organize_again

SpecTwice == InitOut /\ [][NextTwice]_vars

\* the same, and the program started again in a new process
NextProcesses == process_directory \/ Dispatch \/ aggregate \/ copy_next \/ run_in_new_process

SpecProcesses == InitOut /\ [][NextProcesses]_vars

\* ----- ImageSorterApp (gui/app.py) ---------------------------------------
InputDirs == {"", "dir", "gone"}     \* nothing, an existing directory, a path that is none
OutputDirs == {"", "out"}

\* what the sorter and the Config files do is not followed under the GUI
SorterIdle ==
  /\ PipelineIdle
  /\ ConfigIdle
  /\ content = [p \in Images |-> Unknown]
  /\ threshold = 0
  /\ image_hashes = <<>>
  /\ attempted = {}
  /\ df_pc = "unused"
  /\ found = <<>>

\* the input directory field is filled in (browse dialog or typing)
set_input_dir(d) ==
  /\ app_input_dir' = d
  /\ UNCHANGED <<content, dupvars, pipevars, cfgvars, app_output_dir, processing, process_button,
                 app_results, workers, started, after_calls>>

\* the output directory field is filled in
set_output_dir(d) ==
  /\ app_output_dir' = d
  /\ UNCHANGED <<content, dupvars, pipevars, cfgvars, app_input_dir, processing, process_button,
                 app_results, workers, started, after_calls>>

\* _start_processing, the command of the Start Processing button; a disabled
\* button does not run its command
start_processing ==
  /\ process_button = "normal"
  /\ started < MaxRuns
  /\ IF processing \/ app_input_dir = "" \/ app_output_dir = "" \/ app_input_dir # "dir"
       THEN UNCHANGED <<processing, process_button, workers, started>>
       ELSE /\ processing' = TRUE
            /\ process_button' = "disabled"
            /\ workers' = workers + 1
            /\ started' = started + 1
  /\ UNCHANGED <<content, dupvars, pipevars, cfgvars, app_input_dir, app_output_dir,
                 app_results, after_calls>>

\* _process_images in its thread, to its end: the results are stored and
\* _update_results is handed to the main loop, or the exception is caught
\* and the error box and _reset_ui are handed to it
process_images ==
  /\ workers > 0
  /\ \E ok \in BOOLEAN :
       IF ok
         THEN /\ app_results' = "set"
              /\ after_calls' = Append(after_calls, "update_results")
         ELSE /\ after_calls' = after_calls \o <<"showerror", "reset_ui">>
              /\ UNCHANGED app_results
  /\ workers' = workers - 1
  /\ UNCHANGED <<content, dupvars, pipevars, cfgvars, app_input_dir, app_output_dir,
                 processing, process_button, started>>

\* the main loop runs the next callback; _update_results ends in _reset_ui
\* whether self.results is set or not
run_after ==
  /\ after_calls # <<>>
  /\ after_calls' = Tail(after_calls)
  /\ IF Head(after_calls) \in {"update_results", "reset_ui"}
       THEN processing' = FALSE /\ process_button' = "normal"
       ELSE UNCHANGED <<processing, process_button>>
  /\ UNCHANGED <<content, dupvars, pipevars, cfgvars, app_input_dir, app_output_dir,
                 app_results, workers, started>>

\* _reset, the command of the Reset button
reset ==
  /\ app_input_dir' = ""
  /\ app_output_dir' = ""
  /\ processing' = FALSE
  /\ process_button' = "normal"
  /\ app_results' = "None"
  /\ UNCHANGED <<content, dupvars, pipevars, cfgvars, workers, started, after_calls>>

InitGui == SorterIdle /\ GuiIdle

NextGui ==
  \/ \E d \in InputDirs : set_input_dir(d)
  \/ \E d \in OutputDirs : set_output_dir(d)
  \/ start_processing
  \/ process_images
  \/ run_after
  \/ reset

SpecGui == InitGui /\ [][NextGui]_vars

\* ----- Config (utils/config.py) ------------------------------------------
\* A config dict maps each section to a reference to a nested dict object.
\* The nested dicts of DEFAULT_CONFIG are the only ones there are here (the
\* files and set calls followed name sections of DEFAULT_CONFIG only), and
\* "class" refers to the one DEFAULT_CONFIG holds for the section; their
\* contents are default_config.
DefaultTop == [s \in Sections |-> "class"]

\* dict.copy(): a new top-level dict with the same values, here the same
\* references
dict_copy(d) == [s \in DOMAIN d |-> d[s]]

\* the nested values a JSON file can set: at most one value per section and key
Settings == {f \in SUBSET (Sections \X Keys \X BOOLEAN) :
               \A x, y \in f : (x[1] = y[1] /\ x[2] = y[2]) => x = y}

FileContents ==
  {[state |-> "missing", sets |-> {}], [state |-> "corrupt", sets |-> {}]}
  \cup {[state |-> "json", sets |-> f] : f \in Settings}

\* _merge_dict(target, source) where target[s] is the nested dict the
\* reference names: the recursion stores source's values into that object
merge_dict(nested, source) ==
  [s \in Sections |-> [k \in Keys |->
     IF \E x \in source : x[1] = s /\ x[2] = k
       THEN (CHOOSE x \in source : x[1] = s /\ x[2] = k)[3]
       ELSE nested[s][k]]]

\* json.dump of a config dict: every section and key with its present value
dump(top, nested) == {<<s, k, nested[s][k]>> : s \in DOMAIN top, k \in Keys}

\* Config.get("s.k") on instance c
get(c, s, k) == default_config[s][k]

\* Config(config_path) of instance c: __init__ stores the result of load()
ConfigInit(c) ==
  /\ c \notin DOMAIN configs
  /\ configs' = [d \in DOMAIN configs \cup {c} |->
                   IF d = c THEN dict_copy(DefaultTop) ELSE configs[d]]
  /\ IF config_files[c].state = "json"
       THEN /\ default_config' = merge_dict(default_config, config_files[c].sets)
            /\ UNCHANGED config_files
       ELSE IF config_files[c].state = "missing"
         THEN /\ config_files' = [config_files EXCEPT ![c] =
                     [state |-> "json", sets |-> dump(DefaultTop, default_config)]]
              /\ UNCHANGED default_config
       ELSE UNCHANGED <<default_config, config_files>>
  /\ UNCHANGED <<content, dupvars, pipevars, guivars>>

\* Config.set("s.k", value) on instance c, and the save it ends with
ConfigSet(c, s, k, value) ==
  /\ c \in DOMAIN configs
  /\ configs[c][s] = "class"
  /\ default_config' = [default_config EXCEPT ![s][k] = value]
  /\ config_files' = [config_files EXCEPT ![c] =
                        [state |-> "json", sets |-> dump(configs[c], default_config')]]
  /\ UNCHANGED <<content, dupvars, pipevars, guivars, configs>>

InitConfig ==
  /\ PipelineIdle
  /\ GuiIdle
  /\ content = [p \in Images |-> Unknown]
  /\ threshold = 0
  /\ image_hashes = <<>>
  /\ attempted = {}
  /\ df_pc = "unused"
  /\ found = <<>>
  /\ default_config = DefaultNested
  /\ configs = <<>>
  /\ config_files \in [ConfigIds -> FileContents]

NextConfig ==
  \/ \E c \in ConfigIds : ConfigInit(c)
  \/ \E c \in ConfigIds, s \in Sections, k \in Keys, value \in BOOLEAN : ConfigSet(c, s, k, value)

SpecConfig == InitConfig /\ [][NextConfig]_vars

\* ----- helpers for stating properties ------------------------------------
HashOf(p) == image_hashes[DictGet(image_hashes, p)].hash
GroupSet(g) == Range(g)
NoRepeat(g) == \A i, j \in 1..Len(g) : i # j => g[i] # g[j]

\* ----- duplicate finder properties ---------------------------------------
Grouped == UNION {Range(found[g]) : g \in 1..Len(found)}

\* C1: the groups find_duplicates returns are pairwise disjoint, no path
\* occurs twice in one group, and every group has at least two members.
C1_DisjointAndPaired ==
  df_pc = "found" =>
    /\ \A g \in 1..Len(found) : Len(found[g]) >= 2 /\ NoRepeat(found[g])
    /\ \A g, h \in 1..Len(found) : g # h => GroupSet(found[g]) \cap GroupSet(found[h]) = {}

C1_Witness == df_pc = "found" /\ Len(found) >= 2

\* C2 as stated: every pair of one group is within the threshold of each
\* other, or has identical fingerprints.
C2_PairwiseWithin ==
  df_pc = "found" =>
    \A g \in 1..Len(found) : \A x, y \in GroupSet(found[g]) :
      \/ HashOf(x) = HashOf(y)
      \/ hamming_distance(HashOf(x), HashOf(y)) <= threshold

\* C2 amended: every pair of one group has identical fingerprints, or both
\* members are within the threshold of the fingerprint of the group's first
\* member.
C2_PairWithinOfFirst ==
  df_pc = "found" =>
    \A g \in 1..Len(found) : \A x, y \in GroupSet(found[g]) :
      \/ HashOf(x) = HashOf(y)
      \/ /\ hamming_distance(HashOf(found[g][1]), HashOf(x)) <= threshold
         /\ hamming_distance(HashOf(found[g][1]), HashOf(y)) <= threshold

C2_Witness ==
  /\ df_pc = "found"
  /\ \E g \in 1..Len(found) : \E x, y \in GroupSet(found[g]) :
       /\ HashOf(x) # HashOf(y)
       /\ hamming_distance(HashOf(x), HashOf(y)) > threshold

\* C3: in the five-image scenario, for any order of the add_image calls,
\* find_duplicates returns exactly one group and it is {A, B, C}.
C3_ScenarioOneGroup ==
  (df_pc = "found" /\ attempted = ScenarioPaths) =>
    /\ Len(found) = 1
    /\ GroupSet(found[1]) = {"A", "B", "C"}

\* ----- pipeline properties -----------------------------------------------
Discovered == Range(image_files)
Positive(c) == {i \in DOMAIN outcome : outcome[i][c] = "pos"}
HasError(i) == \E c \in {"face", "loc", "dup", "scn"} : outcome[i][c] = "err"
ExactlyOnce(list, S) == Range(list) = S /\ Len(list) = Cardinality(S)
Located == {results.locations[k][1] : k \in 1..Len(results.locations)}

\* the verdict of classifier c for image i is in the collection it belongs to
Recorded(i, c) ==
  outcome[i][c] = "pos" =>
    CASE c = "face" -> i \in Range(results.faces)
      [] c = "loc"  -> i \in Located
      [] c = "dup"  -> i \in DictKeys(image_hashes)
      [] c = "scn"  -> i \in Range(results.scenery)

\* C4: with scenery disabled in the configuration, SceneryClassifier.classify
\* is never invoked for any image.
C4_SceneryOffNeverClassified ==
  config.process_scenery = FALSE => \A i \in DOMAIN outcome : outcome[i].scn = "-"

\* C5: process_directory on a directory that does not exist does not return
\* a ResultSet.
C5_MissingDirectoryFails ==
  dir_exists = FALSE => pd_pc # "returned"

\* C6: find_duplicates and cluster_faces run only after every process_image
\* call has finished, so they read the complete fingerprint map and face list.
C6_Barrier ==
  pd_pc = "returned" =>
    /\ \A i \in DOMAIN task : task[i] \in {"done", "raised"}
    /\ DictKeys(image_hashes) = Positive("dup")
    /\ Range(face_images) = Positive("face")
    /\ results.duplicates = find_duplicates(image_hashes, threshold)

C6_Witness ==
  /\ pd_pc = "returned"
  /\ max_workers >= 2
  /\ Len(image_hashes) >= 2
  /\ results.duplicates # <<>>

\* C7: once every process_image call has finished, each shared collection
\* holds exactly one entry per image with a positive verdict (per image whose
\* hash was computed), whatever the interleaving.
C7_NoLostWrite ==
  (\A i \in DOMAIN task : task[i] = "done") =>
    /\ ExactlyOnce(results.faces, Positive("face"))
    /\ ExactlyOnce(results.locations, {<<i, Label>> : i \in Positive("loc")})
    /\ ExactlyOnce(results.scenery, Positive("scn"))
    /\ ExactlyOnce(image_hashes, {[path |-> i, hash |-> content[i]] : i \in Positive("dup")})

C7_Witness ==
  /\ \A i \in DOMAIN task : task[i] = "done"
  /\ Len(results.faces) >= 2 /\ results.faces[1] = 2
  /\ Len(results.scenery) >= 2 /\ results.scenery[1] = 1
  /\ Len(image_hashes) >= 2

\* C8: when a classifier failed for one image, the run still returns and
\* every other image is in each category whose classifier accepted it.
C8_OtherImagesKept ==
  (pd_pc \notin {"idle", "dispatching"} /\ \E i \in Discovered : HasError(i)) =>
    /\ pd_pc = "returned"
    /\ \A i \in Discovered : HasError(i) =>
         \A j \in Discovered \ {i} : \A c \in {"face", "loc", "dup", "scn"} : Recorded(j, c)

C8_Witness ==
  /\ pd_pc = "returned"
  /\ \E i \in Discovered : \E j \in Discovered \ {i} :
       /\ outcome[i].face = "err"
       /\ outcome[j].face = "pos" /\ j \in Range(results.faces)
       /\ outcome[j].scn = "pos" /\ j \in Range(results.scenery)

\* C9: a failure in one classifier of an image does not stop the image's
\* other classifiers: all four were invoked when the call ends, and each
\* positive verdict is recorded.
C9_SameImageContinues ==
  \A i \in DOMAIN task :
    (task[i] \in {"done", "raised"} /\ HasError(i)) =>
      \A c \in {"face", "loc", "dup", "scn"} : outcome[i][c] # "-" /\ Recorded(i, c)

C9_Witness ==
  \E i \in DOMAIN task :
    /\ task[i] = "done"
    /\ outcome[i].face = "err"
    /\ outcome[i].loc = "pos" /\ i \in Located
    /\ outcome[i].dup = "pos" /\ i \in DictKeys(image_hashes)
    /\ outcome[i].scn = "pos" /\ i \in Range(results.scenery)

\* C10: a copy that fails does not abort materialization: the call still
\* returns and no planned copy is left unattempted.
C10_CopyFailureTolerated ==
  (output_dir # NoOutput /\ pd_pc \in {"returned", "raised"}) =>
    pd_pc = "returned" /\ plan = <<>>

\* the places (folder and file name) that hold a file in the output tree
Places(files) == {[cat |-> f.cat, sub |-> f.sub, name |-> f.name] : f \in files}

\* the copies the returned results call for
Planned == Range(organize_plan(results, hash_seed))

\* C11: after a materialization that returned, every qualifying image has a
\* file of its own in every category folder it matched, also when two
\* qualifying images from different subdirectories have the same file name.
C11_EveryImagePresent ==
  (output_dir # NoOutput /\ pd_pc = "returned") =>
    \A c \in Planned :
      \E f \in fs : f.cat = c.cat /\ f.sub = c.sub /\ f.data = c.src

\* C12: the folder of a duplicate group is named by the set of its members
\* alone: every copy of a member that any run has made into the output root
\* lies in the one folder the present run names for the group.
C12_GroupFolderByMembers ==
  \A k \in 1..Len(results.duplicates) :
    \A f \in fs :
      (f.cat = "duplicates" /\ f.data \in Range(results.duplicates[k])) =>
        f.sub = <<tuple_hash(results.duplicates[k], hash_seed)>>

\* C13: materializing the results of a run a second time into the same
\* output root adds no file and no folder: at every copy of the second pass
\* the places of the output tree stay the ones the first pass left.
C13_SecondPassAddsNothing ==
  [][pd_pc = "organizing_again" => Places(fs') = Places(fs)]_vars

C13_Witness ==
  /\ pd_pc = "returned_again"
  /\ \E f \in fs : f.cat = "duplicates"
  /\ \E f \in fs : f.cat = "faces"

\* C14: the mapping cluster_faces returns has keys in 1..num_clusters only,
\* lists no image twice under a key, and its lists together hold exactly the
\* images a face was cropped from, for every number of collected crops.
C14_ClustersCoverFaces ==
  pd_pc = "clustered" =>
    /\ \A k \in 1..Len(results.people) :
         /\ results.people[k].id \in 1..num_clusters
         /\ \A a, b \in 1..Len(results.people[k].images) :
              results.people[k].images[a] = results.people[k].images[b] => a = b
    /\ UNION {Range(results.people[k].images) : k \in 1..Len(results.people)}
         = Range(image_paths)

C16_UnhashableSkipped ==
  \A i \in DOMAIN outcome :
    outcome[i].dup = "err" =>
      /\ i \notin DictKeys(image_hashes)
      /\ \A g \in 1..Len(results.duplicates) : i \notin Range(results.duplicates[g])
      /\ \A f \in fs : f.cat = "duplicates" => f.data # i
      /\ task[i] \in {"classify", "done"}
      /\ (task[i] = "done" => outcome[i].scn # "-")

C16_Witness ==
  /\ pd_pc = "returned"
  /\ \E i \in DOMAIN outcome :
       /\ outcome[i].dup = "err" /\ task[i] = "done"
       /\ outcome[i].scn = "pos" /\ i \in Range(results.scenery)
       /\ \E j \in DictKeys(image_hashes) : j # i

\* the place of a stored path in the insertion order of the map
Pos(p) == DictGet(image_hashes, p)
First(x, y) == IF Pos(x) < Pos(y) THEN x ELSE y
SameGroup(x, y) == \E g \in 1..Len(found) : x \in GroupSet(found[g]) /\ y \in GroupSet(found[g])
HashesOfGroup(g) == {HashOf(x) : x \in GroupSet(found[g])}

\* three single-image fingerprints a ~ b, b ~ c, and a, c too far apart
Chain(a, b, c) ==
  /\ {a, b, c} \subseteq DictKeys(image_hashes)
  /\ HashOf(a) # HashOf(b) /\ HashOf(b) # HashOf(c)
  /\ hamming_distance(HashOf(a), HashOf(b)) <= threshold
  /\ hamming_distance(HashOf(b), HashOf(c)) <= threshold
  /\ hamming_distance(HashOf(a), HashOf(c)) > threshold

\* no fingerprint is placed in two groups
NoHashTwice ==
  \A g, h \in 1..Len(found) : g # h => HashesOfGroup(g) \cap HashesOfGroup(h) = {}

\* C17 as stated: a fingerprint placed in a group is never evaluated again,
\* and in a map of three fingerprints a ~ b ~ c with a, c apart, whichever
\* of a and b was inserted first is in one group with c.
C17_FirstOfABWithC ==
  (df_pc = "found" /\ Len(image_hashes) = 3) =>
    /\ NoHashTwice
    /\ \A a, b, c \in DictKeys(image_hashes) :
         Chain(a, b, c) => SameGroup(First(a, b), c)

\* C17 amended: a fingerprint placed in a group is never evaluated again,
\* and in a map of three fingerprints a ~ b ~ c with a, c apart, whichever
\* of a and c was inserted first is in one group with b; the other of the
\* two is in that group exactly when b was inserted before both.
C17_FirstOfACWithB ==
  (df_pc = "found" /\ Len(image_hashes) = 3) =>
    /\ NoHashTwice
    /\ \A a, b, c \in DictKeys(image_hashes) :
         Chain(a, b, c) =>
           /\ SameGroup(First(a, c), b)
           /\ SameGroup(a, c) <=> (Pos(b) < Pos(a) /\ Pos(b) < Pos(c))

C17_Witness ==
  /\ df_pc = "found" /\ Len(image_hashes) = 3
  /\ \E a, b, c \in DictKeys(image_hashes) :
       /\ Chain(a, b, c)
       /\ Pos(a) < Pos(b) /\ Pos(b) < Pos(c)
       /\ SameGroup(a, b) /\ ~SameGroup(a, c)

\* C18: at the barrier, whatever the interleaving of the detect calls was,
\* face_images and image_paths have the same length and image_paths[k] is
\* the image face_images[k] was cropped from (a crop is written as the image
\* it was cut out of).
C18_CropsAligned ==
  (pd_pc \in {"dispatching", "returned"} /\ AllTasksDone) =>
    /\ Len(face_images) = Len(image_paths)
    /\ \A k \in 1..Len(face_images) : image_paths[k] = face_images[k]

\* the hashed images find_duplicates left out of every group
Ungrouped == DictKeys(image_hashes) \ Grouped

\* C19: after find_duplicates, any two hashed images that are both in no
\* group have fingerprints further apart than the threshold.
C19_UngroupedApart ==
  df_pc = "found" =>
    \A x, y \in Ungrouped :
      x # y => hamming_distance(HashOf(x), HashOf(y)) > threshold

C19_Witness ==
  /\ df_pc = "found"
  /\ threshold = MaxThreshold
  /\ Len(found) >= 1
  /\ \E x, y \in Ungrouped :
       x # y /\ hamming_distance(HashOf(x), HashOf(y)) = threshold + 1

\* C20: images with identical fingerprints are never separated: any two
\* images sharing a fingerprint are in one returned group, and so every
\* fingerprint shared by two images or more is in some returned group.
C20_IdenticalTogether ==
  df_pc = "found" =>
    \A x, y \in DictKeys(image_hashes) :
      (x # y /\ HashOf(x) = HashOf(y)) => SameGroup(x, y)

C20_Witness ==
  /\ df_pc = "found"
  /\ \E x, y, z \in DictKeys(image_hashes) :
       /\ Pos(z) < Pos(x) /\ Pos(x) < Pos(y)
       /\ HashOf(x) = HashOf(y) /\ HashOf(z) # HashOf(x)
       /\ SameGroup(z, x) /\ SameGroup(z, y)

\* a group all of whose members have one fingerprint
ExactGroup(g) == \A x \in GroupSet(found[g]) : HashOf(x) = HashOf(found[g][1])

\* C21: every returned group that is not an exact-match group has its first
\* member as seed: the fingerprint of every other member is within the
\* threshold of the fingerprint of the first member.
C21_SeedIsFirst ==
  df_pc = "found" =>
    \A g \in 1..Len(found) :
      ~ExactGroup(g) =>
        \A k \in 2..Len(found[g]) :
          hamming_distance(HashOf(found[g][1]), HashOf(found[g][k])) <= threshold

C21_Witness ==
  /\ df_pc = "found"
  /\ \E g \in 1..Len(found) :
       /\ Len(found[g]) >= 4
       /\ HashOf(found[g][2]) = HashOf(found[g][3])
       /\ HashOf(found[g][1]) # HashOf(found[g][2])
       /\ HashOf(found[g][4]) # HashOf(found[g][1])
       /\ hamming_distance(HashOf(found[g][2]), HashOf(found[g][4])) > threshold

\* the images a list of the results names, and the list naming none twice
Own(list) == Range(list) \subseteq Discovered /\ NoRepeat(list)

\* C22: the results a second call of process_directory returns cover that
\* call alone: every category list, every duplicate group and every face
\* cluster names only images found under the directory of the second call,
\* each at most once.
C22_SecondResultOwn ==
  (calls = 2 /\ pd_pc = "returned") =>
    /\ Own(results.faces)
    /\ Own(results.scenery)
    /\ Own([k \in 1..Len(results.locations) |-> results.locations[k][1]])
    /\ \A g \in 1..Len(results.duplicates) : Own(results.duplicates[g])
    /\ \A k \in 1..Len(results.people) : Own(results.people[k].images)

\* C23: in the GUI at most one _process_images thread is running at any
\* time, whatever the sequence of Start Processing and Reset events.
C23_OneWorker == workers <= 1

\* the file of instance c sets no value other than the default
FileKeepsDefaults(c) ==
  \A x \in config_files[c].sets : x[3] = DefaultNested[x[1]][x[2]]

\* C24: no sequence of Config loads and sets changes DEFAULT_CONFIG: the
\* class defaults hold their original values, and so does the configuration
\* of every instance whose file sets none of them otherwise.
C24_DefaultsKept ==
  /\ default_config = DefaultNested
  /\ \A c \in DOMAIN configs :
       FileKeepsDefaults(c) =>
         \A s \in Sections, k \in Keys : get(c, s, k) = DefaultNested[s][k]

====
